---- MODULE Spec2Model ----
(***************************************************************************)
(* Model of lbrynet/schema/signer.py: the curve registry (get_signer), the *)
(* signer classes, raw signing (sign) and the claim signing protocol       *)
(* (sign_stream_claim) with its two envelopes, legacy and detached.        *)
(*                                                                         *)
(* Text (str) is a sequence of code points, bytes a sequence of 0..255.    *)
(* Exceptions carry the names of the error taxonomy; the Python exceptions *)
(* outside it keep their Python names (KeyError, binascii.Error).          *)
(* Assertions are enabled (the interpreter is not run with -O).            *)
(***************************************************************************)
EXTENDS Integers, Sequences, FiniteSets, TLC

VARIABLES pc, lookup, cls, signer, call, result

vars == <<pc, lookup, cls, signer, call, result>>

----------------------------------------------------------------------------
(* Bounds of the explored inputs *)

MaxNameLen == 2
NumKeys == 1

----------------------------------------------------------------------------
(* Named constants imported by the module *)

NIST256p == "NIST256p"
NIST384p == "NIST384p"
SECP256k1 == "SECP256k1"
SHA256 == "SHA256"
SHA384 == "SHA384"
V_0_0_1 == "_0_0_1"

None == <<>>

----------------------------------------------------------------------------
(* Text and byte helpers *)

RECURSIVE Join(_)
\* b''.join(fields)
Join(fields) ==
    IF fields = <<>> THEN <<>> ELSE Head(fields) \o Join(Tail(fields))

\* str.lower() on one code point (ASCII and Latin-1 letters)
LowerChar(c) ==
    IF c >= 65 /\ c <= 90 THEN c + 32
    ELSE IF c >= 192 /\ c <= 222 /\ c # 215 THEN c + 32
    ELSE c

\* name.lower()
Lower(s) == [i \in 1..Len(s) |-> LowerChar(s[i])]

\* UTF-8 encoding of one code point
EncodeChar(c) ==
    IF c < 128 THEN <<c>>
    ELSE IF c < 2048 THEN <<192 + (c \div 64), 128 + (c % 64)>>
    ELSE <<224 + (c \div 4096), 128 + ((c \div 64) % 64), 128 + (c % 64)>>

RECURSIVE Encode(_)
\* str.encode()
Encode(s) ==
    IF s = <<>> THEN <<>> ELSE EncodeChar(Head(s)) \o Encode(Tail(s))

\* value of a hexadecimal digit given as a code point, -1 when it is none
HexVal(c) ==
    IF c >= 48 /\ c <= 57 THEN c - 48
    ELSE IF c >= 97 /\ c <= 102 THEN c - 87
    ELSE IF c >= 65 /\ c <= 70 THEN c - 55
    ELSE -1

\* binascii.unhexlify raises on odd length or on a non-hex digit
CanUnhexlify(s) ==
    /\ Len(s) % 2 = 0
    /\ \A i \in 1..Len(s) : HexVal(s[i]) >= 0

\* binascii.unhexlify(cert_claim_id)
Unhexlify(s) ==
    [i \in 1..(Len(s) \div 2) |-> 16 * HexVal(s[2 * i - 1]) + HexVal(s[2 * i])]

\* truth value of a str: empty is false
Truthy(s) == Len(s) > 0

RECURSIVE Repeat(_, _)
Repeat(s, n) == IF n = 0 THEN <<>> ELSE s \o Repeat(s, n - 1)

----------------------------------------------------------------------------
(* Collaborators outside the module: claim-id validator, address codec,    *)
(* base-64 field normalisation, claim loading, signature parsing.          *)

ClaimIdLen == 40

\* validate_claim_id: fixed length, hexadecimal charset
ValidateClaimId(s) ==
    /\ Len(s) = ClaimIdLen
    /\ \A i \in 1..Len(s) : HexVal(s[i]) >= 0

\* the address codec's table over the addresses explored: fixed-width binary
AddressTable ==
    [bGoodOne |-> <<85, 11, 12>>, bGoodTwo |-> <<85, 21, 22>>]

AddressDecodes(a) == a \in DOMAIN AddressTable

\* decode_address(claim_address)
DecodeAddress(a) == AddressTable[a]

Pow64(k) == IF k = 0 THEN 1 ELSE IF k = 1 THEN 64 ELSE IF k = 2 THEN 4096 ELSE 262144
Pow256(k) == IF k = 0 THEN 1 ELSE IF k = 1 THEN 256 ELSE 65536

ByteAt(b, i) == IF i <= Len(b) THEN b[i] ELSE 0

\* base-64 text of bytes, as sextet indices; 64 stands for the padding '='
B64Encode(b) ==
    [i \in 1..(4 * ((Len(b) + 2) \div 3)) |->
        LET k == (i - 1) \div 4
            j == (i - 1) % 4
            v == 65536 * ByteAt(b, 3 * k + 1) + 256 * ByteAt(b, 3 * k + 2)
                    + ByteAt(b, 3 * k + 3)
        IN IF (j = 2 /\ 3 * k + 2 > Len(b)) \/ (j = 3 /\ 3 * k + 3 > Len(b))
           THEN 64
           ELSE (v \div Pow64(3 - j)) % 64]

Sextet(s, i) == IF s[i] = 64 THEN 0 ELSE s[i]

Pads(s) == Cardinality({i \in 1..Len(s) : s[i] = 64})

\* bytes of base-64 text
B64Decode(s) ==
    [i \in 1..(3 * (Len(s) \div 4) - Pads(s)) |->
        LET k == (i - 1) \div 3
            j == (i - 1) % 3
            v == 262144 * Sextet(s, 4 * k + 1) + 4096 * Sextet(s, 4 * k + 2)
                    + 64 * Sextet(s, 4 * k + 3) + Sextet(s, 4 * k + 4)
        IN (v \div Pow256(2 - j)) % 256]

\* the byte-valued fields of each message of a claim's field mapping
B64Fields ==
    [stream |-> {"source"},
     certificate |-> {"publicKey"},
     publisherSignature |-> {"signature", "certificateId"}]

\* decode_b64_fields: every byte-valued field from base-64 text to bytes
DecodeB64Fields(d) ==
    [f \in DOMAIN d |->
        IF f \in DOMAIN B64Fields
        THEN [g \in DOMAIN d[f] |->
                IF g \in B64Fields[f] THEN B64Decode(d[f][g]) ELSE d[f][g]]
        ELSE d[f]]

\* the inverse walk: every byte-valued field from bytes to base-64 text
EncodeB64Fields(d) ==
    [f \in DOMAIN d |->
        IF f \in DOMAIN B64Fields
        THEN [g \in DOMAIN d[f] |->
                IF g \in B64Fields[f] THEN B64Encode(d[f][g]) ELSE d[f][g]]
        ELSE d[f]]

\* wire form of one field of a claim: tag, then value or length and value
SerializeField(d, f) ==
    IF f \notin DOMAIN d THEN <<>>
    ELSE IF f = "version" THEN <<8, IF d[f] = V_0_0_1 THEN 1 ELSE 0>>
    ELSE IF f = "claimType" THEN <<16, IF d[f] = "streamType" THEN 1 ELSE 2>>
    ELSE IF f = "stream"
         THEN <<26, Len(d[f].source) + Len(d[f].contentType)>>
                \o d[f].source \o Encode(d[f].contentType)
    ELSE <<34, Len(d[f].publicKey)>> \o d[f].publicKey

\* the serialized claim without its publisherSignature
SerializeNoSignature(d) ==
    SerializeField(d, "version") \o SerializeField(d, "claimType")
        \o SerializeField(d, "stream") \o SerializeField(d, "certificate")

\* Claim.load(message): the claim object built from a mapping of decoded
\* fields; protobuf_dict shows its byte fields as base-64 text
ClaimLoad(message) ==
    [protobuf_dict |-> EncodeB64Fields(message),
     serialized_no_signature |-> SerializeNoSignature(message)]

\* Signature(NAMED_SECP256K1(signature, certificate_id, payload))
NamedSecp256k1(signature, raw_cert_id, payload) ==
    [flag |-> "NAMED_SECP256K1", signature |-> signature,
     certificate_id |-> raw_cert_id, payload |-> payload]

\* Signature.flagged_parse(proto.SerializeToString()): the embedded
\* publisherSignature read back out of the serialized claim
FlaggedParse(proto) ==
    LET sig == DecodeB64Fields(proto.protobuf_dict).publisherSignature
    IN [flag |-> "LEGACY", version |-> sig.version,
        curve_id |-> sig.signatureType, signature |-> sig.signature,
        certificate_id |-> sig.certificateId]

----------------------------------------------------------------------------
(* The cryptographic primitives, as ideal functions of their inputs        *)

\* the digest size in bytes tells the two hash functions apart
HashTag(h) == IF h = SHA384 THEN 48 ELSE 32

\* HASHFUNC(data).digest(): collision-free, distinct per hash function
Digest(hashfunc, data) == <<HashTag(hashfunc)>> \o data

\* sign_digest_deterministic: RFC 6979, a function of key, digest and hash
SignDigestDeterministic(key, digest, hashfunc) ==
    <<200 + key.id, HashTag(hashfunc)>> \o digest

----------------------------------------------------------------------------
(* Signer classes *)

NIST256pSigner ==
    [CURVE_NAME |-> NIST256p, HASHFUNC |-> "hashlib.sha256", HASHFUNC_NAME |-> SHA256]

NIST384pSigner ==
    [CURVE_NAME |-> NIST384p, HASHFUNC |-> "hashlib.sha384", HASHFUNC_NAME |-> SHA384]

SECP256k1Signer ==
    [CURVE_NAME |-> SECP256k1, HASHFUNC |-> "hashlib.sha256", HASHFUNC_NAME |-> SHA256]

\* the hash a class's HASHFUNC computes
HashOf(class) == IF class.HASHFUNC = "hashlib.sha384" THEN SHA384 ELSE SHA256

get_signer_wrong384(curve) ==
    IF curve = NIST256p THEN [error |-> "", class |-> NIST256pSigner]
    ELSE IF curve = NIST384p THEN [error |-> "", class |-> NIST256pSigner]
    ELSE IF curve = SECP256k1 THEN [error |-> "", class |-> SECP256k1Signer]
    ELSE [error |-> "UnknownCurve", class |-> None]

get_signer(curve) ==
    IF curve = NIST256p THEN [error |-> "", class |-> NIST256pSigner]
    ELSE IF curve = NIST384p THEN [error |-> "", class |-> NIST384pSigner]
    ELSE IF curve = SECP256k1 THEN [error |-> "", class |-> SECP256k1Signer]
    ELSE [error |-> "UnknownCurve", class |-> None]

----------------------------------------------------------------------------
(* Private key objects a signer can be constructed with: every object     *)
(* that provides the methods the class calls on it.                        *)
(*   SigningKey    an ecdsa.SigningKey                                     *)
(*   ForeignSigner an object of another type with the same methods         *)

KeyKinds == {"SigningKey", "ForeignSigner"}

Keys == [kind : KeyKinds, id : 1..NumKeys]

\* isinstance(self.private_key, ecdsa.SigningKey)
IsSigningKey(key) == key.kind = "SigningKey"

----------------------------------------------------------------------------
(* sign and sign_stream_claim.  An outcome records what the call did: the  *)
(* byte strings handed to HASHFUNC, the digests handed to                  *)
(* sign_digest_deterministic, the signature, the error raised ("" for      *)
(* none) and the value returned (None when it raised).                     *)

Raise(e) ==
    [error |-> e, hashed |-> <<>>, signed |-> <<>>, signature |-> <<>>, ret |-> None]

\* self.sign(*fields)
Sign(self, fields) ==
    LET data == Join(fields)
        digest == Digest(HashOf(self.class), data)
    IN [error |-> "", hashed |-> <<data>>, signed |-> <<digest>>,
        signature |-> SignDigestDeterministic(self.private_key, digest,
                                              HashOf(self.class)),
        ret |-> None]

DetachedFieldsAddrFirst(name, decoded_addr, claim, raw_cert_id) ==
    <<decoded_addr, Encode(Lower(name)), claim.serialized_no_signature, raw_cert_id>>

DetachedFieldsNoLower(name, decoded_addr, claim, raw_cert_id) ==
    <<Encode(name), decoded_addr, claim.serialized_no_signature, raw_cert_id>>

\* the fields signed in detached mode
DetachedFields(name, decoded_addr, claim, raw_cert_id) ==
    <<Encode(Lower(name)), decoded_addr, claim.serialized_no_signature, raw_cert_id>>

LegacyFieldsCertFirst(decoded_addr, claim, raw_cert_id) ==
    <<raw_cert_id, decoded_addr, claim.serialized_no_signature>>

\* the fields signed in legacy mode
LegacyFields(decoded_addr, claim, raw_cert_id) ==
    <<decoded_addr, claim.serialized_no_signature, raw_cert_id>>

CurveSupportsDetachedAnyBut384(self) == self.class.CURVE_NAME # NIST384p

\* self.CURVE_NAME == SECP256k1
CurveSupportsDetached(self) == self.class.CURVE_NAME = SECP256k1

DetachedReturnEmbedded(claim, signature, raw_cert_id) ==
    <<ClaimLoad([f \in DOMAIN claim.protobuf_dict \cup {"publisherSignature"} |->
            IF f = "publisherSignature"
            THEN [version |-> V_0_0_1, signatureType |-> SECP256k1,
                  signature |-> signature, certificateId |-> raw_cert_id]
            ELSE DecodeB64Fields(claim.protobuf_dict)[f]]),
      NamedSecp256k1(signature, raw_cert_id, claim.serialized_no_signature)>>

\* the value returned in detached mode
DetachedReturn(claim, signature, raw_cert_id) ==
    <<ClaimLoad(DecodeB64Fields(claim.protobuf_dict)),
      NamedSecp256k1(signature, raw_cert_id, claim.serialized_no_signature)>>

LegacyMsgFixedType(self, claim, signature, raw_cert_id) ==
    [version |-> V_0_0_1,
     stream |-> DecodeB64Fields(claim.protobuf_dict).stream,
     publisherSignature |->
        [version |-> V_0_0_1, signatureType |-> NIST256p,
         signature |-> signature, certificateId |-> raw_cert_id]]

\* msg of the legacy path, sig_dict spliced in
LegacyMsg(self, claim, signature, raw_cert_id) ==
    [version |-> V_0_0_1,
     stream |-> DecodeB64Fields(claim.protobuf_dict).stream,
     publisherSignature |->
        [version |-> V_0_0_1, signatureType |-> self.class.CURVE_NAME,
         signature |-> signature, certificateId |-> raw_cert_id]]

\* the signing branch: the detached assertions, then self.sign
SignBranch(self, claim, decoded_addr, raw_cert_id, name, detached) ==
    IF detached
    THEN IF ~Truthy(name) THEN Raise("MissingName")
         ELSE IF ~CurveSupportsDetached(self)
              THEN Raise("UnsupportedCurveForDetached")
         ELSE Sign(self, DetachedFields(name, decoded_addr, claim, raw_cert_id))
    ELSE Sign(self, LegacyFields(decoded_addr, claim, raw_cert_id))

\* what follows the signing branch: the value returned
Output(self, claim, raw_cert_id, detached, s) ==
    IF s.error # "" THEN s
    ELSE IF detached
         THEN [s EXCEPT !.ret = DetachedReturn(claim, s.signature, raw_cert_id)]
    ELSE IF ~IsSigningKey(self.private_key)
         THEN [s EXCEPT !.error = "NotASigningKey"]
    ELSE IF "stream" \notin DOMAIN claim.protobuf_dict
         THEN [s EXCEPT !.error = "KeyError"]
    ELSE LET proto == ClaimLoad(LegacyMsg(self, claim, s.signature, raw_cert_id))
         IN [s EXCEPT !.ret = <<proto, FlaggedParse(proto)>>]

AfterValidationAssertsFirst(self, claim, claim_address, cert_claim_id, name, detached) ==
    IF ~CanUnhexlify(cert_claim_id) THEN Raise("binascii.Error")
    ELSE IF detached /\ ~Truthy(name) THEN Raise("MissingName")
    ELSE IF detached /\ ~CurveSupportsDetached(self)
         THEN Raise("UnsupportedCurveForDetached")
    ELSE IF ~AddressDecodes(claim_address) THEN Raise("InvalidAddress")
    ELSE LET raw_cert_id == Unhexlify(cert_claim_id)
             decoded_addr == DecodeAddress(claim_address)
         IN Output(self, claim, raw_cert_id, detached,
                   SignBranch(self, claim, decoded_addr, raw_cert_id, name, detached))

\* sign_stream_claim once the certificate id has been validated
AfterValidation(self, claim, claim_address, cert_claim_id, name, detached) ==
    IF ~CanUnhexlify(cert_claim_id) THEN Raise("binascii.Error")
    ELSE IF ~AddressDecodes(claim_address) THEN Raise("InvalidAddress")
    ELSE LET raw_cert_id == Unhexlify(cert_claim_id)
             decoded_addr == DecodeAddress(claim_address)
         IN Output(self, claim, raw_cert_id, detached,
                   SignBranch(self, claim, decoded_addr, raw_cert_id, name, detached))

SignStreamClaimValidateLast(self, claim, claim_address, cert_claim_id, name, detached) ==
    LET r == AfterValidation(self, claim, claim_address, cert_claim_id, name, detached)
    IN IF (r.error = "" \/ r.error = "NotASigningKey") /\ ~ValidateClaimId(cert_claim_id)
       THEN [r EXCEPT !.error = "InvalidCertificateId", !.ret = None]
       ELSE r

\* sign_stream_claim(claim, claim_address, cert_claim_id, name, detached)
SignStreamClaim(self, claim, claim_address, cert_claim_id, name, detached) ==
    IF ~ValidateClaimId(cert_claim_id) THEN Raise("InvalidCertificateId")
    ELSE AfterValidation(self, claim, claim_address, cert_claim_id, name, detached)

----------------------------------------------------------------------------
(* Inputs explored *)

\* F, f and the Latin-1 capital E acute
Chars == {70, 102, 201}

Names == UNION {[1..n -> Chars] : n \in 0..MaxNameLen}

CurveInputs == {NIST256p, NIST384p, SECP256k1, "secp256k1", "ed25519", ""}

Addresses == {"bGoodOne", "bGoodTwo", "notBase58"}

\* "ab" x 20, "0F" x 20, 38 hex digits, 40 characters not all hex
CertIds ==
    {Repeat(<<97, 98>>, 20), Repeat(<<48, 70>>, 20), Repeat(<<97, 98>>, 19),
     <<122, 122>> \o Repeat(<<97, 98>>, 19)}

Sources == {<<1, 2, 3>>, <<4, 5>>}

StreamFields(src) ==
    [version |-> V_0_0_1, claimType |-> "streamType",
     stream |-> [source |-> src, contentType |-> <<109, 112, 52>>]]

\* a stream claim that already carries an embedded signature
SignedStreamFields(src) ==
    [version |-> V_0_0_1, claimType |-> "streamType",
     stream |-> [source |-> src, contentType |-> <<109, 112, 52>>],
     publisherSignature |->
        [version |-> V_0_0_1, signatureType |-> NIST256p,
         signature |-> <<7, 7, 7, 7>>, certificateId |-> <<9, 9>>]]

CertificateFields ==
    [version |-> V_0_0_1, claimType |-> "certificateType",
     certificate |-> [publicKey |-> <<48, 86, 48, 16>>]]

Claims ==
    {ClaimLoad(StreamFields(src)) : src \in Sources}
        \cup {ClaimLoad(SignedStreamFields(src)) : src \in Sources}
        \cup {ClaimLoad(CertificateFields)}

----------------------------------------------------------------------------
(* The caller's flow: resolve a curve, construct a signer, sign a claim    *)

Init ==
    /\ pc = "start"
    /\ lookup = None
    /\ cls = None
    /\ signer = None
    /\ call = None
    /\ result = None

\* cls = get_signer(curve)
GetSigner ==
    /\ pc = "start"
    /\ \E curve \in CurveInputs :
          LET r == get_signer(curve)
          IN /\ lookup' = [curve |-> curve, error |-> r.error]
             /\ cls' = r.class
             /\ pc' = IF r.error = "" THEN "resolved" ELSE "failed"
    /\ UNCHANGED <<signer, call, result>>

\* cls(private_key)
NewSigner ==
    /\ pc = "resolved"
    /\ \E key \in Keys :
          signer' = [class |-> cls, private_key |-> key]
    /\ pc' = "ready"
    /\ UNCHANGED <<lookup, cls, call, result>>

\* cls.generate()
Generate ==
    /\ pc = "resolved"
    /\ \E id \in 1..NumKeys :
          signer' = [class |-> cls, private_key |-> [kind |-> "SigningKey", id |-> id]]
    /\ pc' = "ready"
    /\ UNCHANGED <<lookup, cls, call, result>>

\* signer.sign_stream_claim(claim, claim_address, cert_claim_id, name, detached)
CallSignStreamClaim ==
    /\ pc = "ready"
    /\ \E claim \in Claims, claim_address \in Addresses, cert_claim_id \in CertIds,
          name \in Names, detached \in BOOLEAN :
          /\ call' = [claim |-> claim, claim_address |-> claim_address,
                      cert_claim_id |-> cert_claim_id, name |-> name,
                      detached |-> detached]
          /\ result' = SignStreamClaim(signer, claim, claim_address, cert_claim_id,
                                       name, detached)
    /\ pc' = "done"
    /\ UNCHANGED <<lookup, cls, signer>>

Next == GetSigner \/ NewSigner \/ Generate \/ CallSignStreamClaim

Spec == Init /\ [][Next]_vars

----------------------------------------------------------------------------
(* Properties *)

Done == pc = "done"

Succeeded == Done /\ result.error = ""

\* the byte sequence of detached mode, from the call's arguments
DetachedBytes(c) ==
    Encode(Lower(c.name)) \o DecodeAddress(c.claim_address)
        \o c.claim.serialized_no_signature \o Unhexlify(c.cert_claim_id)

\* the byte sequence of legacy mode, from the call's arguments
LegacyBytes(c) ==
    DecodeAddress(c.claim_address) \o c.claim.serialized_no_signature
        \o Unhexlify(c.cert_claim_id)

SignatureOver(data) ==
    SignDigestDeterministic(signer.private_key,
                            Digest(signer.class.HASHFUNC_NAME, data),
                            signer.class.HASHFUNC_NAME)

TaxonomyErrors ==
    {"InvalidCertificateId", "InvalidAddress", "MissingName",
     "UnsupportedCurveForDetached", "NotASigningKey"}

\* C1: every successful detached call hashes exactly one byte string, the
\* concatenation lower-cased UTF-8 name, decoded address, the claim's
\* serialized_no_signature, hex-decoded certificate id, and signs its digest.
C1_DetachedSignedBytes ==
    (Succeeded /\ call.detached) =>
        /\ result.hashed = <<DetachedBytes(call)>>
        /\ result.signed = <<Digest(signer.class.HASHFUNC_NAME, DetachedBytes(call))>>
        /\ result.signature = SignatureOver(DetachedBytes(call))

\* a detached success for the name "F" + E acute: the bytes are "f", the
\* two-byte UTF-8 form of e acute, the address, the claim, the certificate id
C1_Witness ==
    /\ Succeeded /\ call.detached
    /\ call.name = <<70, 201>>
    /\ result.hashed =
         << <<102, 195, 169>> \o <<85, 11, 12>>
              \o <<8, 1, 16, 1, 26, 6, 1, 2, 3, 109, 112, 52>>
              \o Repeat(<<15>>, 20) >>

\* C2: every successful legacy call hashes exactly decoded address,
\* serialized_no_signature, hex-decoded certificate id; the same call with
\* any other name hashes and signs the same bytes.
C2_LegacySignedBytes ==
    (Succeeded /\ ~call.detached) =>
        /\ result.hashed = <<LegacyBytes(call)>>
        /\ result.signed = <<Digest(signer.class.HASHFUNC_NAME, LegacyBytes(call))>>
        /\ result.signature = SignatureOver(LegacyBytes(call))
        /\ \A other \in Names :
              LET r == SignStreamClaim(signer, call.claim, call.claim_address,
                                       call.cert_claim_id, other, FALSE)
              IN r.error = "" /\ r.hashed = result.hashed
                    /\ r.signature = result.signature

\* a legacy success with a non-empty name whose bytes are the three parts
C2_Witness ==
    /\ Succeeded /\ ~call.detached
    /\ call.name = <<70, 102>>
    /\ result.hashed =
         << <<85, 21, 22>> \o <<8, 1, 16, 1, 26, 5, 4, 5, 109, 112, 52>>
              \o Repeat(<<171>>, 20) >>

\* C3: a call that ends in an error of the taxonomy has hashed nothing,
\* signed nothing and returned nothing.
C3_FailuresBeforeCrypto ==
    (Done /\ result.error \in TaxonomyErrors) =>
        /\ result.hashed = <<>>
        /\ result.signed = <<>>
        /\ result.ret = None

\* C4: detached with a valid certificate id, a decodable address and a
\* non-empty name fails with UnsupportedCurveForDetached on the two NIST
\* signers and returns a detached envelope on a SECP256k1 signer; no
\* detached envelope comes from a signer of another curve.
C4_DetachedCurveRestriction ==
    /\ (Done /\ call.detached /\ ValidateClaimId(call.cert_claim_id)
            /\ AddressDecodes(call.claim_address) /\ Truthy(call.name)) =>
          /\ signer.class.CURVE_NAME \in {NIST256p, NIST384p} =>
                result.error = "UnsupportedCurveForDetached" /\ result.ret = None
          /\ signer.class.CURVE_NAME = SECP256k1 =>
                /\ result.error = ""
                /\ result.ret # None
                /\ result.ret[2].flag = "NAMED_SECP256K1"
    /\ (Done /\ result.ret # None /\ result.ret[2].flag = "NAMED_SECP256K1") =>
          signer.class.CURVE_NAME = SECP256k1

\* a NIST256p signer refused with all other inputs valid
C4_Witness ==
    /\ Done /\ call.detached /\ ValidateClaimId(call.cert_claim_id)
    /\ AddressDecodes(call.claim_address) /\ Truthy(call.name)
    /\ signer.class.CURVE_NAME = NIST256p
    /\ result.error = "UnsupportedCurveForDetached"

\* C5: a call whose certificate id fails validation ends in
\* InvalidCertificateId, whatever the curve and the mode, with nothing
\* hashed, nothing signed and nothing returned.
C5_InvalidCertificateIdFirst ==
    (Done /\ ~ValidateClaimId(call.cert_claim_id)) =>
        /\ result.error = "InvalidCertificateId"
        /\ result.hashed = <<>>
        /\ result.signed = <<>>
        /\ result.ret = None

\* a certificate id of the right length that is not hexadecimal, refused
C5_Witness ==
    /\ Done /\ Len(call.cert_claim_id) = ClaimIdLen
    /\ ~ValidateClaimId(call.cert_claim_id)
    /\ AddressDecodes(call.claim_address)
    /\ result.error = "InvalidCertificateId"

\* C6: a successful detached call hashes the same bytes and yields the same
\* signature as the same call with any name equal to its name after
\* lower-casing.
C6_NameCaseInsensitive ==
    (Succeeded /\ call.detached) =>
        \A other \in Names :
            Lower(other) = Lower(call.name) =>
                LET r == SignStreamClaim(signer, call.claim, call.claim_address,
                                         call.cert_claim_id, other, TRUE)
                IN r.error = "" /\ r.hashed = result.hashed
                      /\ r.signature = result.signature

\* a detached success for "Ff", which differs from "ff" only by case
C6_Witness ==
    /\ Succeeded /\ call.detached
    /\ call.name = <<70, 102>>
    /\ <<102, 102>> \in Names
    /\ result.hashed[1][1] = 102

\* C7: a successful detached call returns the input claim with its fields
\* as they were, the computed signature not embedded in it (it carries a
\* publisherSignature only if the input did, and then the input's), and the
\* envelope (signature, hex-decoded certificate id, serialized_no_signature),
\* whose claim bytes are the ones inside the hashed byte sequence.
C7_DetachedOutput ==
    (Succeeded /\ call.detached) =>
        LET claim == result.ret[1]
            envelope == result.ret[2]
            before == DecodeB64Fields(call.claim.protobuf_dict)
            after == DecodeB64Fields(claim.protobuf_dict)
        IN /\ claim = call.claim
           /\ DOMAIN after = DOMAIN before
           /\ \A f \in DOMAIN before : after[f] = before[f]
           /\ "publisherSignature" \in DOMAIN after =>
                 after.publisherSignature.signature # result.signature
           /\ envelope = [flag |-> "NAMED_SECP256K1",
                          signature |-> result.signature,
                          certificate_id |-> Unhexlify(call.cert_claim_id),
                          payload |-> call.claim.serialized_no_signature]
           /\ result.hashed =
                 <<Encode(Lower(call.name)) \o DecodeAddress(call.claim_address)
                     \o envelope.payload \o envelope.certificate_id>>

\* a detached success on an unsigned stream claim: the claim comes back
\* without publisherSignature, next to a complete envelope
C7_Witness ==
    /\ Succeeded /\ call.detached
    /\ call.claim = ClaimLoad(StreamFields(<<1, 2, 3>>))
    /\ "publisherSignature" \notin DOMAIN result.ret[1].protobuf_dict
    /\ result.ret[2].payload = <<8, 1, 16, 1, 26, 6, 1, 2, 3, 109, 112, 52>>
    /\ Len(result.ret[2].signature) > 0

\* the publisherSignature a legacy call builds
LegacySigDict ==
    [version |-> V_0_0_1,
     signatureType |-> signer.class.CURVE_NAME,
     signature |-> SignatureOver(LegacyBytes(call)),
     certificateId |-> Unhexlify(call.cert_claim_id)]

\* C8 as stated: after a successful legacy call every decoded field of the
\* input claim is in the resulting claim with its value, and the only
\* addition is publisherSignature.
C8_AllFieldsPreserved ==
    (Succeeded /\ ~call.detached) =>
        LET before == DecodeB64Fields(call.claim.protobuf_dict)
            after == DecodeB64Fields(result.ret[1].protobuf_dict)
        IN /\ DOMAIN after = DOMAIN before \cup {"publisherSignature"}
           /\ \A f \in DOMAIN before \ {"publisherSignature"} : after[f] = before[f]
           /\ after.publisherSignature = LegacySigDict

\* C8 amended: after a successful legacy call the resulting claim has
\* exactly three fields: version V_0_0_1, the input claim's decoded stream,
\* and publisherSignature = {version, the signer's curve name, the signature
\* over the legacy byte sequence, the hex-decoded certificate id}.
C8_LegacyOutput ==
    (Succeeded /\ ~call.detached) =>
        LET before == DecodeB64Fields(call.claim.protobuf_dict)
            after == DecodeB64Fields(result.ret[1].protobuf_dict)
        IN /\ after = [version |-> V_0_0_1,
                       stream |-> before.stream,
                       publisherSignature |-> LegacySigDict]
           /\ result.ret[2] = [flag |-> "LEGACY", version |-> V_0_0_1,
                               curve_id |-> signer.class.CURVE_NAME,
                               signature |-> result.signature,
                               certificate_id |-> Unhexlify(call.cert_claim_id)]

\* a legacy success of a NIST384p signer on a claim that has a claimType
\* and an earlier signature: the stream is kept, the signature is the new one
C8_Witness ==
    /\ Succeeded /\ ~call.detached
    /\ signer.class.CURVE_NAME = NIST384p
    /\ call.claim = ClaimLoad(SignedStreamFields(<<4, 5>>))
    /\ DecodeB64Fields(result.ret[1].protobuf_dict).stream.source = <<4, 5>>
    /\ DecodeB64Fields(result.ret[1].protobuf_dict).publisherSignature.signatureType
          = NIST384p
    /\ DecodeB64Fields(result.ret[1].protobuf_dict).publisherSignature.certificateId
          = Repeat(<<171>>, 20)

\* C9: get_signer returns, for each of the three curve identifiers, the
\* class of that CURVE_NAME (hash SHA384 for NIST384p, SHA256 otherwise),
\* fails with the unknown-curve error and no class for any other input, and
\* touches nothing else.
C9_GetSignerLookup ==
    pc \in {"resolved", "failed"} =>
        /\ lookup.curve \in {NIST256p, NIST384p, SECP256k1} =>
              /\ pc = "resolved" /\ lookup.error = ""
              /\ cls.CURVE_NAME = lookup.curve
              /\ cls.HASHFUNC_NAME = (IF lookup.curve = NIST384p THEN SHA384 ELSE SHA256)
              /\ HashOf(cls) = cls.HASHFUNC_NAME
        /\ lookup.curve \notin {NIST256p, NIST384p, SECP256k1} =>
              /\ pc = "failed" /\ lookup.error = "UnknownCurve"
              /\ cls = None
        /\ signer = None /\ call = None /\ result = None

\* NIST384p resolved to the class hashing with SHA384
C9_Witness ==
    /\ pc = "resolved" /\ lookup.curve = NIST384p
    /\ cls.CURVE_NAME = NIST384p /\ cls.HASHFUNC_NAME = SHA384

\* C10: the error of a call is that of the first violated check in the
\* order certificate id, address, then (detached only) name, curve; a
\* legacy call never ends in MissingName or UnsupportedCurveForDetached.
C10_CheckOrder ==
    Done =>
        LET badId == ~ValidateClaimId(call.cert_claim_id)
            badAddress == ~AddressDecodes(call.claim_address)
            noName == call.detached /\ ~Truthy(call.name)
            badCurve == call.detached /\ signer.class.CURVE_NAME # SECP256k1
        IN /\ badId => result.error = "InvalidCertificateId"
           /\ (~badId /\ badAddress) => result.error = "InvalidAddress"
           /\ (~badId /\ ~badAddress /\ noName) => result.error = "MissingName"
           /\ (~badId /\ ~badAddress /\ ~noName /\ badCurve) =>
                 result.error = "UnsupportedCurveForDetached"
           /\ ~call.detached =>
                 result.error \notin {"MissingName", "UnsupportedCurveForDetached"}

\* a detached call on a NIST signer with an undecodable address and no
\* name: of the three violated checks the address is reported
C10_Witness ==
    /\ Done /\ call.detached
    /\ signer.class.CURVE_NAME = NIST256p
    /\ ValidateClaimId(call.cert_claim_id)
    /\ ~AddressDecodes(call.claim_address)
    /\ ~Truthy(call.name)
    /\ result.error = "InvalidAddress"

====
